---- MODULE Spec2Model ----
(***************************************************************************)
(* Model of the TextWave SDK client (src/src/index.ts): the constructor,   *)
(* the private request routine and the four public operations sendSms,     *)
(* getHistory, getBalance and getTransactions.                             *)
(*                                                                         *)
(* Strings the code builds or inspects character by character (the         *)
(* credential, the base URL, paths, query strings, header values) are      *)
(* sequences of one-character strings, so that concatenation is \o and     *)
(* the trailing-slash regular expression is an operation on the last       *)
(* character.  Strings the code only passes along (phone numbers, message  *)
(* texts, server messages and codes) are TLA+ strings.                     *)
(***************************************************************************)
EXTENDS Integers, Sequences, FiniteSets, TLC

VARIABLES
    ctor,      \* the constructor call: its arguments and how it ended
    apiKey,    \* TextWave.apiKey  (private field)
    baseUrl,   \* TextWave.baseUrl (private field)
    calls      \* the invocations of public operations, in order of invocation

vars == <<ctor, apiKey, baseUrl, calls>>

----------------------------------------------------------------------------
(* Bounds of the model *)

\* Longest endpoint override handed to the constructor.
MaxUrlLen == 2
\* Largest page number handed to getHistory / getTransactions.
MaxPage == 2
\* Most invocations kept when the caller does not await them one by one.
MaxCalls == 2

----------------------------------------------------------------------------
(* JavaScript values *)

\* An argument or property that is absent (undefined), or present with a value.
undefined == [defined |-> FALSE]
Val(v) == [defined |-> TRUE, value |-> v]

\* All sequences over S of length at most n.
SeqUpTo(S, n) == UNION {[1..k -> S] : k \in 0..n}

\* !s for an optional string held as a character sequence:
\* undefined and '' are falsy.
FalsyStr(s) == (~s.defined) \/ s.value = <<>>
\* !s for an optional string held as a TLA+ string.
FalsyText(s) == (~s.defined) \/ s.value = ""
\* !n for an optional number: undefined and 0 are falsy.
FalsyNum(n) == (~n.defined) \/ n.value = 0

\* String(n) and `${n}` for a natural number: its decimal digits.
Digit(d) == <<"0", "1", "2", "3", "4", "5", "6", "7", "8", "9">>[d + 1]
RECURSIVE String(_)
String(n) == IF n < 10 THEN <<Digit(n)>>
             ELSE String(n \div 10) \o <<Digit(n % 10)>>

\* An Error object as the caller sees it: TextWaveError adds code and status.
Error(message) ==
    [name |-> "Error", message |-> message, code |-> undefined, status |-> undefined]

----------------------------------------------------------------------------
(* Constructor *)

\* 'https://api.textwave.co.ke/v1'
DefaultBaseUrl ==
    <<"h", "t", "t", "p", "s", ":", "/", "/", "a", "p", "i", ".",
      "t", "e", "x", "t", "w", "a", "v", "e", ".", "c", "o", ".", "k", "e",
      "/", "v", "1">>

\* Mutant of StripTrailingSlash: the pattern /\/+$/ removes every trailing slash.
RECURSIVE StripAllTrailingSlashes(_)
StripAllTrailingSlashes(s) ==
    IF Len(s) > 0 /\ s[Len(s)] = "/"
    THEN StripAllTrailingSlashes(SubSeq(s, 1, Len(s) - 1))
    ELSE s

\* baseUrl.replace(/\/$/, ''): the first match of "a slash at the end of input".
StripTrailingSlash(s) ==
    IF Len(s) > 0 /\ s[Len(s)] = "/" THEN SubSeq(s, 1, Len(s) - 1) ELSE s

ApiKeyRequired == Error("API key is required. Get one at https://textwave.co.ke")

\* Mutant of constructor: the credential check is missing.
constructorUnchecked(apiKeyArg, baseUrlArg) ==
    [threw   |-> FALSE,
     apiKey  |-> IF apiKeyArg.defined THEN apiKeyArg.value ELSE <<>>,
     baseUrl |-> StripTrailingSlash(IF baseUrlArg.defined THEN baseUrlArg.value
                                    ELSE DefaultBaseUrl)]

\* new TextWave(apiKey, baseUrl = DefaultBaseUrl): throws, or sets both fields.
constructor(apiKeyArg, baseUrlArg) ==
    IF FalsyStr(apiKeyArg)
    THEN [threw |-> TRUE, error |-> ApiKeyRequired]
    ELSE [threw   |-> FALSE,
          apiKey  |-> apiKeyArg.value,
          baseUrl |-> StripTrailingSlash(IF baseUrlArg.defined THEN baseUrlArg.value
                                         ELSE DefaultBaseUrl)]

----------------------------------------------------------------------------
(* The request routine *)

\* 'ApiKey '
ApiKeyPrefix == <<"A", "p", "i", "K", "e", "y", " ">>
\* 'application/json'
ApplicationJson == "application/json"

\* An options object with no headers spreads nothing into the header object.
NoHeaders == [h \in {} |-> ""]
\* request(endpoint) with the default options = {}.
NoOptions == [method |-> undefined, body |-> undefined, headers |-> NoHeaders]

\* { 'Authorization': ..., 'Content-Type': ..., ...options.headers }:
\* a later property of an object literal replaces an earlier one of the same name.
Headers(key, optionHeaders) ==
    optionHeaders @@ ("Authorization" :> (ApiKeyPrefix \o key))
                  @@ ("Content-Type" :> ApplicationJson)

\* Mutant of request: the Authorization header carries the bare credential.
requestBareKey(endpoint, options) ==
    [url     |-> baseUrl \o endpoint,
     method  |-> options.method,
     body    |-> options.body,
     headers |-> options.headers @@ ("Authorization" :> apiKey)
                                 @@ ("Content-Type" :> ApplicationJson)]

\* Mutant of request: the URL keeps a separating slash between base and path.
requestExtraSlash(endpoint, options) ==
    [url     |-> baseUrl \o <<"/">> \o endpoint,
     method  |-> options.method,
     body    |-> options.body,
     headers |-> Headers(apiKey, options.headers)]

\* The arguments of the fetch call made by request(endpoint, options):
\* url = `${this.baseUrl}${endpoint}`, init = { ...options, headers: {...} }.
request(endpoint, options) ==
    [url     |-> baseUrl \o endpoint,
     method  |-> options.method,
     body    |-> options.body,
     headers |-> Headers(apiKey, options.headers)]

\* The network request fetch(url, init) issues: the method defaults to GET.
fetch(init) ==
    [url     |-> init.url,
     method  |-> IF init.method.defined THEN init.method.value ELSE "GET",
     headers |-> init.headers,
     body    |-> init.body]

\* response.ok: the status is in the range 200-299.
ok(status) == status >= 200 /\ status <= 299

\* What response.json() rejects with on a body that is not JSON.  The object is
\* made by the runtime's fetch implementation: its class, its text and its
\* properties are the runtime's, and request() reads none of them.  It is held
\* as an opaque object; there are two, so that one cannot pass for the other.
JsonRejections == {[raisedBy |-> "response.json", object |-> n] : n \in {1, 2}}
\* What reading data.message throws when data is null: a TypeError of the
\* language, which has no code and no status.  Its text is the engine's own
\* wording and is not held.
NullPropertyError ==
    [name |-> "TypeError", code |-> undefined, status |-> undefined]

\* data.<key>: a member of an object; undefined on an object without it and on
\* a number.  (On null the read throws: see AfterJson.)
Member(data, key) ==
    IF data.type = "object" /\ key \in DOMAIN data.members
    THEN Val(data.members[key])
    ELSE undefined

Throw(e) == [kind |-> "throw", error |-> e]
Return(v) == [kind |-> "return", value |-> v]
pending == [kind |-> "pending"]

\* Mutant of AfterJson: a successful body that is not an object is refused.
AfterJsonValidates(status, data) ==
    IF ~ok(status)
    THEN IF data.type = "null"
         THEN Throw(NullPropertyError)
         ELSE Throw([name    |-> "Error",
                     message |-> IF FalsyText(Member(data, "message"))
                                 THEN "API request failed"
                                 ELSE Member(data, "message").value,
                     code    |-> Member(data, "code"),
                     status  |-> Val(status)])
    ELSE IF data.type = "object" THEN Return(data)
         ELSE Throw(Error("Invalid response"))

\* request() after `data = await response.json()` has resolved.
AfterJson(status, data) ==
    IF ~ok(status)
    THEN IF data.type = "null"
         THEN Throw(NullPropertyError)
         ELSE Throw([name    |-> "Error",
                     message |-> IF FalsyText(Member(data, "message"))
                                 THEN "API request failed"
                                 ELSE Member(data, "message").value,
                     code    |-> Member(data, "code"),
                     status  |-> Val(status)])
    ELSE Return(data)

\* Mutant of AfterBody: the status is examined before the body is parsed.
AfterBodyStatusFirst(status, body) ==
    IF ~ok(status)
    THEN Throw([name |-> "Error", message |-> "API request failed",
                code |-> undefined, status |-> Val(status)])
    ELSE IF body.parses THEN AfterJson(status, body.data)
         ELSE Throw(body.raised)

\* request() from `await response.json()` on: json() rejects on a body that
\* is not JSON, and the error it rejects with leaves request() as it is.
AfterBody(status, body) ==
    IF body.parses THEN AfterJson(status, body.data)
    ELSE Throw(body.raised)

----------------------------------------------------------------------------
(* The public operations: the endpoint and options each hands to request *)

SmsSendPath == <<"/", "s", "m", "s", "/", "s", "e", "n", "d">>
SmsHistoryPath == <<"/", "s", "m", "s", "/", "h", "i", "s", "t", "o", "r", "y">>
WalletBalancePath == <<"/", "w", "a", "l", "l", "e", "t", "/", "b", "a", "l", "a", "n", "c", "e">>
WalletTransactionsPath == <<"/", "w", "a", "l", "l", "e", "t", "/", "t", "r", "a", "n", "s", "a", "c", "t", "i", "o", "n", "s">>
PageName == <<"p", "a", "g", "e">>
LimitName == <<"l", "i", "m", "i", "t">>
StatusName == <<"s", "t", "a", "t", "u", "s">>

\* JSON.stringify of the body object, as the sequence of its tokens:
\* P(c) is the punctuation mark c, Q(s) the quoted string literal of s.
P(c) == <<"p", c>>
Q(s) == <<"q", s>>

RECURSIVE StringifyItems(_)
StringifyItems(items) ==
    IF items = <<>> THEN <<>>
    ELSE IF Len(items) = 1 THEN <<Q(items[1])>>
    ELSE <<Q(items[1]), P(",")>> \o StringifyItems(Tail(items))

\* A value of the body: a string, or an array of strings.
StringifyValue(v) ==
    IF v.type = "string" THEN <<Q(v.s)>>
    ELSE <<P("[")>> \o StringifyItems(v.items) \o <<P("]")>>

RECURSIVE StringifyMembers(_)
StringifyMembers(members) ==
    IF members = <<>> THEN <<>>
    ELSE <<Q(members[1][1]), P(":")>> \o StringifyValue(members[1][2])
         \o (IF Len(members) = 1 THEN <<>>
             ELSE <<P(",")>> \o StringifyMembers(Tail(members)))

\* JSON.stringify(body) for an object given as its members in insertion order.
JSONstringify(members) == <<P("{")>> \o StringifyMembers(members) \o <<P("}")>>

Str(s) == [type |-> "string", s |-> s]
Arr(items) == [type |-> "array", items |-> items]

\* Mutant of sendSms: a single recipient is wrapped into an array.
sendSmsWraps(to, message, senderId) ==
    LET list  == IF to.type = "string" THEN Arr(<<to.s>>) ELSE to
        body0 == <<<<"to", list>>, <<"message", Str(message)>>>>
        body  == IF FalsyText(senderId) THEN body0
                 ELSE Append(body0, <<"senderId", Str(senderId.value)>>)
    IN  [endpoint |-> SmsSendPath,
         options  |-> [method  |-> Val("POST"),
                       body    |-> Val(JSONstringify(body)),
                       headers |-> NoHeaders]]

\* sendSms(to, message, senderId?)
sendSms(to, message, senderId) ==
    LET body0 == <<<<"to", to>>, <<"message", Str(message)>>>>
        body  == IF FalsyText(senderId) THEN body0
                 ELSE Append(body0, <<"senderId", Str(senderId.value)>>)
    IN  [endpoint |-> SmsSendPath,
         options  |-> [method  |-> Val("POST"),
                       body    |-> Val(JSONstringify(body)),
                       headers |-> NoHeaders]]

\* params.set(name, value) on a URLSearchParams held as a list of pairs.
ParamsSet(params, name, value) ==
    IF \E i \in DOMAIN params : params[i][1] = name
    THEN [i \in DOMAIN params |->
             IF params[i][1] = name THEN <<name, value>> ELSE params[i]]
    ELSE Append(params, <<name, value>>)

\* params.toString(): name=value pairs joined by '&'.  The names and values
\* the operations set are letters and digits, which the form encoding keeps.
RECURSIVE ParamsToString(_)
ParamsToString(params) ==
    IF params = <<>> THEN <<>>
    ELSE params[1][1] \o <<"=">> \o params[1][2]
         \o (IF Len(params) = 1 THEN <<>>
             ELSE <<"&">> \o ParamsToString(Tail(params)))

\* getHistory(options = {})
getHistory(options) ==
    LET p1 == IF FalsyNum(options.page) THEN <<>>
              ELSE ParamsSet(<<>>, PageName, String(options.page.value))
        p2 == IF FalsyNum(options.limit) THEN p1
              ELSE ParamsSet(p1, LimitName, String(options.limit.value))
        p3 == IF FalsyStr(options.status) THEN p2
              ELSE ParamsSet(p2, StatusName, options.status.value)
        query == IF ParamsToString(p3) = <<>> THEN <<>>
                 ELSE <<"?">> \o ParamsToString(p3)
    IN  [endpoint |-> SmsHistoryPath \o query, options |-> NoOptions]

\* getBalance()
getBalance == [endpoint |-> WalletBalancePath, options |-> NoOptions]

DefaultPage == 1
DefaultLimit == 20

\* Mutant of getTransactions: the defaults replace every falsy argument
\* (page || 1, limit || 20).
getTransactionsFalsyDefaults(page, limit) ==
    LET p == IF FalsyNum(page) THEN DefaultPage ELSE page.value
        l == IF FalsyNum(limit) THEN DefaultLimit ELSE limit.value
    IN  [endpoint |-> WalletTransactionsPath
                      \o <<"?">> \o PageName \o <<"=">> \o String(p)
                      \o <<"&">> \o LimitName \o <<"=">> \o String(l),
         options  |-> NoOptions]

\* getTransactions(page = 1, limit = 20)
getTransactions(page, limit) ==
    LET p == IF page.defined THEN page.value ELSE DefaultPage
        l == IF limit.defined THEN limit.value ELSE DefaultLimit
    IN  [endpoint |-> WalletTransactionsPath
                      \o <<"?">> \o PageName \o <<"=">> \o String(p)
                      \o <<"&">> \o LimitName \o <<"=">> \o String(l),
         options  |-> NoOptions]

----------------------------------------------------------------------------
(* Inputs *)

UrlAlphabet == {"a", "/"}
\* The constructor's arguments when each call is awaited before the next.
Credentials == {undefined, Val(<<>>), Val(<<"k">>), Val(<<"k", "2">>)}
EndpointOverrides ==
    {undefined} \cup {Val(s) : s \in SeqUpTo(UrlAlphabet, MaxUrlLen)}
\* The constructor's arguments when calls overlap.
FewCredentials == {undefined, Val(<<"k">>)}
FewEndpointOverrides == {undefined, Val(<<"a", "/", "/">>)}

Recipients ==
    {Str("254700000001"), Arr(<<"254700000001">>),
     Arr(<<"254700000001", "254700000002">>)}
Messages == {"Hello!"}
SenderIds == {undefined, Val(""), Val("MyBrand")}
FewRecipients == {Str("254700000001"), Arr(<<"254700000001">>)}
FewSenderIds == {undefined, Val("MyBrand")}

Sent == <<"s", "e", "n", "t">>
Delivered == <<"d", "e", "l", "i", "v", "e", "r", "e", "d">>
Pages == {undefined} \cup {Val(n) : n \in 0..MaxPage}
Limits == {undefined, Val(0), Val(50)}
Statuses == {undefined, Val(Sent), Val(Delivered)}
HistoryOptions == [page : Pages, limit : Limits, status : Statuses]
FewHistoryOptions ==
    {[page |-> Val(2), limit |-> Val(50), status |-> Val(Delivered)]}
FewPages == {undefined}
FewLimits == {undefined}

\* What the transport may deliver.
TransportErrors ==
    {[name |-> "TypeError", message |-> "fetch failed",
      code |-> undefined, status |-> undefined],
     [name |-> "FetchError", message |-> "socket hang up",
      code |-> Val("ECONNRESET"), status |-> undefined]}
HttpStatuses == {200, 299, 300, 401}
FewHttpStatuses == {200, 401}

JNull == [type |-> "null"]
JNumber(n) == [type |-> "number", n |-> n]
JObject(members) == [type |-> "object", members |-> members]
NoMembers == [k \in {} |-> ""]
\* An object with the given optional message and code members.
MessageCode(m, c) ==
    JObject((IF m.defined THEN "message" :> m.value ELSE NoMembers)
            @@ (IF c.defined THEN "code" :> c.value ELSE NoMembers))
\* A body that is not JSON, with the error response.json() rejects with on it.
Unparsables(text) ==
    {[parses |-> FALSE, text |-> text, raised |-> e] : e \in JsonRejections}
Parsed(data) == [parses |-> TRUE, data |-> data]

Bodies ==
    Unparsables("<html>") \cup Unparsables("")
    \cup {Parsed(JNull), Parsed(JNumber(7)),
     Parsed(JObject("status" :> "success"))}
    \cup {Parsed(MessageCode(m, c)) :
             m \in {undefined, Val(""), Val("Invalid API key")},
             c \in {undefined, Val("UNAUTHORIZED")}}
FewBodies ==
    Unparsables("<html>")
    \cup {Parsed(JObject("status" :> "success")),
     Parsed(MessageCode(Val("Invalid API key"), Val("UNAUTHORIZED")))}

----------------------------------------------------------------------------
(* State machine *)

Init ==
    /\ ctor = [state |-> "none"]
    /\ apiKey = <<>>
    /\ baseUrl = <<>>
    /\ calls = <<>>

\* new TextWave(k, b)
Construct(k, b) ==
    /\ ctor.state = "none"
    /\ LET r == constructor(k, b) IN
         IF r.threw
         THEN /\ ctor' = [state |-> "threw", apiKeyArg |-> k, baseUrlArg |-> b,
                          error |-> r.error]
              /\ UNCHANGED <<apiKey, baseUrl>>
         ELSE /\ ctor' = [state |-> "constructed", apiKeyArg |-> k, baseUrlArg |-> b]
              /\ apiKey' = r.apiKey
              /\ baseUrl' = r.baseUrl
    /\ UNCHANGED calls

\* An invocation that has just made its fetch call and awaits it.
NewCall(op, args, r) ==
    [op       |-> op,
     args     |-> args,
     fetches  |-> <<fetch(request(r.endpoint, r.options))>>,
     pc       |-> "fetch",
     response |-> pending,
     body     |-> pending,
     outcome  |-> pending]

Completed == \A i \in DOMAIN calls : calls[i].pc = "done"

\* Mutant of Invoke: the invocation strips one more slash from the base URL.
InvokeRestrips(op, args, r, awaited) ==
    /\ IF awaited
       THEN Completed /\ calls' = <<NewCall(op, args, r)>>
       ELSE Len(calls) < MaxCalls /\ calls' = Append(calls, NewCall(op, args, r))
    /\ baseUrl' = StripTrailingSlash(baseUrl)
    /\ UNCHANGED <<ctor, apiKey>>

\* An async public operation runs up to its first await within the caller's
\* turn: it builds the request and makes the fetch call.  A caller that awaits
\* each call (awaited) invokes the next one once the last has completed and
\* keeps only that one; otherwise invocations overlap.
Invoke(op, args, r, awaited) ==
    /\ IF awaited
       THEN Completed /\ calls' = <<NewCall(op, args, r)>>
       ELSE Len(calls) < MaxCalls /\ calls' = Append(calls, NewCall(op, args, r))
    /\ UNCHANGED <<ctor, apiKey, baseUrl>>

\* client.sendSms(to, message, senderId) on a constructed client.
SendSms(to, message, senderId, awaited) ==
    /\ ctor.state = "constructed"
    /\ Invoke("sendSms", [to |-> to, message |-> message, senderId |-> senderId],
           sendSms(to, message, senderId), awaited)

\* client.getHistory(options)
GetHistory(options, awaited) ==
    /\ ctor.state = "constructed"
    /\ Invoke("getHistory", [options |-> options], getHistory(options), awaited)

\* client.getBalance()
GetBalance(awaited) ==
    /\ ctor.state = "constructed"
    /\ Invoke("getBalance", [none |-> TRUE], getBalance, awaited)

\* client.getTransactions(page, limit)
GetTransactions(page, limit, awaited) ==
    /\ ctor.state = "constructed"
    /\ Invoke("getTransactions", [page |-> page, limit |-> limit],
           getTransactions(page, limit), awaited)

\* Mutant of FetchRejects: a failed fetch is retried once.
FetchRejectsRetry(i, e) ==
    /\ i \in DOMAIN calls
    /\ calls[i].pc = "fetch"
    /\ calls' = [calls EXCEPT ![i] =
                   IF Len(@.fetches) < 2
                   THEN [@ EXCEPT !.fetches = Append(@, @[1])]
                   ELSE [@ EXCEPT !.pc = "done", !.response = Throw(e),
                                  !.outcome = Throw(e)]]
    /\ UNCHANGED <<ctor, apiKey, baseUrl>>

\* Mutant of FetchRejects: a timer of the client ends the call with e while
\* the transport has delivered nothing.
FetchTimesOut(i, e) ==
    /\ i \in DOMAIN calls
    /\ calls[i].pc = "fetch"
    /\ calls' = [calls EXCEPT ![i] = [@ EXCEPT !.pc = "done", !.outcome = Throw(e)]]
    /\ UNCHANGED <<ctor, apiKey, baseUrl>>

\* `await fetch(...)` rejects with e: request() ends with that rejection.
FetchRejects(i, e) ==
    /\ i \in DOMAIN calls
    /\ calls[i].pc = "fetch"
    /\ calls' = [calls EXCEPT ![i] =
                   [@ EXCEPT !.pc = "done", !.response = Throw(e),
                             !.outcome = Throw(e)]]
    /\ UNCHANGED <<ctor, apiKey, baseUrl>>

\* `await fetch(...)` resolves with a response of the given status;
\* request() goes on to await response.json().
FetchResolves(i, status) ==
    /\ i \in DOMAIN calls
    /\ calls[i].pc = "fetch"
    /\ calls' = [calls EXCEPT ![i] =
                   [@ EXCEPT !.pc = "json",
                             !.response = [kind |-> "response", status |-> status]]]
    /\ UNCHANGED <<ctor, apiKey, baseUrl>>

\* Mutant of JsonSettles: calls are served in order of invocation, a body
\* being handed over only when every earlier call has completed.
JsonSettlesInOrder(i, body) ==
    /\ i \in DOMAIN calls
    /\ calls[i].pc = "json"
    /\ \A j \in 1..(i - 1) : calls[j].pc = "done"
    /\ calls' = [calls EXCEPT ![i] =
                   [@ EXCEPT !.pc = "done", !.body = body,
                             !.outcome = AfterBody(calls[i].response.status, body)]]
    /\ UNCHANGED <<ctor, apiKey, baseUrl>>

\* `await response.json()` settles on the body received; request() ends.
JsonSettles(i, body) ==
    /\ i \in DOMAIN calls
    /\ calls[i].pc = "json"
    /\ calls' = [calls EXCEPT ![i] =
                   [@ EXCEPT !.pc = "done", !.body = body,
                             !.outcome = AfterBody(calls[i].response.status, body)]]
    /\ UNCHANGED <<ctor, apiKey, baseUrl>>

\* Calls that may overlap, on few inputs.
Next ==
    \/ \E k \in FewCredentials, b \in FewEndpointOverrides : Construct(k, b)
    \/ \E to \in FewRecipients, m \in Messages, s \in FewSenderIds :
          SendSms(to, m, s, FALSE)
    \/ \E o \in FewHistoryOptions : GetHistory(o, FALSE)
    \/ GetBalance(FALSE)
    \/ \E p \in FewPages, l \in FewLimits : GetTransactions(p, l, FALSE)
    \/ \E i \in 1..MaxCalls, e \in TransportErrors : FetchRejects(i, e)
    \/ \E i \in 1..MaxCalls, st \in FewHttpStatuses : FetchResolves(i, st)
    \/ \E i \in 1..MaxCalls, b \in FewBodies : JsonSettles(i, b)

Spec == Init /\ [][Next]_vars

\* Calls awaited one by one, on all inputs.
NextAwaited ==
    \/ \E k \in Credentials, b \in EndpointOverrides : Construct(k, b)
    \/ \E to \in Recipients, m \in Messages, s \in SenderIds :
          SendSms(to, m, s, TRUE)
    \/ \E o \in HistoryOptions : GetHistory(o, TRUE)
    \/ GetBalance(TRUE)
    \/ \E p \in Pages, l \in Limits : GetTransactions(p, l, TRUE)
    \/ \E e \in TransportErrors : FetchRejects(1, e)
    \/ \E st \in HttpStatuses : FetchResolves(1, st)
    \/ \E b \in Bodies : JsonSettles(1, b)

SpecAwaited == Init /\ [][NextAwaited]_vars

\* One input of each operation, calls overlapping.
NextResponsive ==
    \/ Construct(Val(<<"k">>), undefined)
    \/ SendSms(Str("254700000001"), "Hello!", undefined, FALSE)
    \/ GetHistory([page |-> undefined, limit |-> undefined, status |-> undefined],
                  FALSE)
    \/ GetBalance(FALSE)
    \/ GetTransactions(undefined, undefined, FALSE)
    \/ \E i \in 1..MaxCalls, e \in TransportErrors : FetchRejects(i, e)
    \/ \E i \in 1..MaxCalls, st \in FewHttpStatuses : FetchResolves(i, st)
    \/ \E i \in 1..MaxCalls, b \in FewBodies : JsonSettles(i, b)

\* The transport answers every request: the fetch of each call settles, and so
\* does the reading of the body of each response.  The event loop then resumes
\* request() at its await, which is part of the same step.
TransportResponds ==
    \A i \in 1..MaxCalls :
        /\ WF_vars(\/ \E st \in FewHttpStatuses : FetchResolves(i, st)
                   \/ \E e \in TransportErrors : FetchRejects(i, e))
        /\ WF_vars(\E b \in FewBodies : JsonSettles(i, b))

SpecResponsive == Init /\ [][NextResponsive]_vars /\ TransportResponds

----------------------------------------------------------------------------
(* Vocabulary of the properties *)

\* The HTTP status is outside the success range 2xx.
NotSuccess(status) == status < 200 \/ status > 299

\* The calls that have completed.
Done == {i \in DOMAIN calls : calls[i].pc = "done"}
\* The calls of one operation.
CallsOf(op) == {i \in DOMAIN calls : calls[i].op = op}
\* The calls whose fetch resolved with a response and whose body has arrived.
Answered == {i \in Done : calls[i].response.kind = "response"}

\* The part of a request's URL that follows the base endpoint and the path.
AfterPath(url, path) == SubSeq(url, Len(baseUrl) + Len(path) + 1, Len(url))

\* The pieces of s between occurrences of the separator.
RECURSIVE Split(_, _)
Split(s, sep) ==
    IF \A i \in DOMAIN s : s[i] # sep THEN <<s>>
    ELSE LET k == CHOOSE i \in DOMAIN s :
                     s[i] = sep /\ \A j \in 1..(i - 1) : s[j] # sep
         IN  <<SubSeq(s, 1, k - 1)>> \o Split(SubSeq(s, k + 1, Len(s)), sep)

\* The name=value parameters of a query string that starts with '?'.
QueryParams(q) ==
    IF q = <<>> THEN {}
    ELSE LET pieces == Split(Tail(q), "&")
         IN  {Split(pieces[i], "=") : i \in DOMAIN pieces}

\* The member names of a serialized body, and the token after a member's colon.
BodyKeys(body) ==
    {body[i][2] : i \in {j \in 1..(Len(body) - 1) : body[j + 1] = P(":")}}
BodyString(body, key) ==
    {body[i + 2] : i \in {j \in 1..(Len(body) - 2) :
                             body[j] = Q(key) /\ body[j + 1] = P(":")}}

----------------------------------------------------------------------------
(* Properties *)

\* C1: constructing the client with an empty or absent credential fails, in the
\* constructor itself, with the configuration error and sets no field; with a
\* non-empty credential it succeeds, whatever the endpoint override.
C1_CredentialRequired ==
    ctor.state # "none" =>
        IF (~ctor.apiKeyArg.defined) \/ Len(ctor.apiKeyArg.value) = 0
        THEN /\ ctor.state = "threw"
             /\ ctor.error.name = "Error"
             /\ ctor.error.message
                  = "API key is required. Get one at https://textwave.co.ke"
             /\ calls = <<>>
        ELSE ctor.state = "constructed"

C1_Witness ==
    /\ ctor.state = "threw"
    /\ ctor.apiKeyArg = Val(<<>>)
    /\ ctor.baseUrlArg = Val(<<"a", "/">>)

\* C5: the stored base endpoint is the endpoint override with one final '/'
\* removed when it ends in '/', and the override itself otherwise.
C5_SlashStrippedOnce ==
    (ctor.state = "constructed" /\ ctor.baseUrlArg.defined) =>
        LET s == ctor.baseUrlArg.value IN
          IF s # <<>> /\ s[Len(s)] = "/"
          THEN baseUrl \o <<"/">> = s
          ELSE baseUrl = s

C5_Witness ==
    /\ ctor.state = "constructed"
    /\ ctor.baseUrlArg = Val(<<"/", "/">>)
    /\ baseUrl = <<"/">>

\* C2: a response whose status is outside 2xx and whose body parses as JSON
\* makes the operation fail with an error that carries the response's status,
\* the server-supplied code, and the server-supplied message when there is one.
C2_RequestErrorCarriesStatusAndCode ==
    \A i \in Answered :
        LET c == calls[i] IN
        (NotSuccess(c.response.status) /\ c.body.parses) =>
            /\ c.outcome.kind = "throw"
            /\ c.outcome.error.status = Val(c.response.status)
            /\ c.outcome.error.code = Member(c.body.data, "code")
            /\ Member(c.body.data, "message").defined =>
                   c.outcome.error.message = Member(c.body.data, "message").value

\* C3: every request of every operation carries Authorization: ApiKey <credential>,
\* with the credential given at construction, and Content-Type: application/json.
C3_EveryRequestAuthenticated ==
    \A i \in DOMAIN calls : \A n \in DOMAIN calls[i].fetches :
        LET h == calls[i].fetches[n].headers IN
        /\ {"Authorization", "Content-Type"} \subseteq DOMAIN h
        /\ h["Authorization"]
             = <<"A", "p", "i", "K", "e", "y", " ">> \o ctor.apiKeyArg.value
        /\ h["Content-Type"] = "application/json"

C3_Witness ==
    /\ ctor.state = "constructed"
    /\ ctor.apiKeyArg = Val(<<"k", "2">>)
    /\ \E i \in Done : calls[i].op = "getTransactions"
    /\ \A i \in DOMAIN calls :
          calls[i].fetches[1].headers["Authorization"]
            = <<"A", "p", "i", "K", "e", "y", " ", "k", "2">>

\* The path and the method of each operation.
PathOf(op) ==
    CASE op = "sendSms" -> SmsSendPath
      [] op = "getHistory" -> SmsHistoryPath
      [] op = "getBalance" -> WalletBalancePath
      [] op = "getTransactions" -> WalletTransactionsPath
MethodOf(op) == IF op = "sendSms" THEN "POST" ELSE "GET"

\* C4: each operation issues its request to the base endpoint followed by its
\* fixed path (and, after it, nothing or a query string), with its fixed
\* method; getBalance sends no parameters.
C4_FixedPathAndMethod ==
    \A i \in DOMAIN calls : \A n \in DOMAIN calls[i].fetches :
        LET f    == calls[i].fetches[n]
            path == PathOf(calls[i].op)
            rest == AfterPath(f.url, path)
        IN  /\ Len(f.url) >= Len(baseUrl) + Len(path)
            /\ SubSeq(f.url, 1, Len(baseUrl)) = baseUrl
            /\ SubSeq(f.url, Len(baseUrl) + 1, Len(baseUrl) + Len(path)) = path
            /\ rest = <<>> \/ rest[1] = "?"
            /\ f.method = MethodOf(calls[i].op)
            /\ calls[i].op = "getBalance" => (rest = <<>> /\ ~f.body.defined)

C4_Witness ==
    /\ ctor.state = "constructed"
    /\ ctor.baseUrlArg = Val(<<"a", "/">>)
    /\ \E i \in DOMAIN calls :
          /\ calls[i].op = "sendSms"
          /\ calls[i].fetches[1].method = "POST"
          /\ calls[i].fetches[1].url
               = <<"a", "/", "s", "m", "s", "/", "s", "e", "n", "d">>

\* The parameters getHistory is to send for its options: those supplied.
SuppliedParams(options) ==
    {<<PageName, String(options.page.value)>> : x \in {1} \cap
         (IF options.page.defined THEN {1} ELSE {})}
    \cup {<<LimitName, String(options.limit.value)>> : x \in {1} \cap
         (IF options.limit.defined THEN {1} ELSE {})}
    \cup {<<StatusName, options.status.value>> : x \in {1} \cap
         (IF options.status.defined THEN {1} ELSE {})}

\* C6: the query string of getHistory holds page, limit and status exactly when
\* the option was supplied, with the supplied value, and nothing else; with no
\* option supplied there is no query string at all.
C6_HistoryQueryFromSuppliedOptions ==
    \A i \in CallsOf("getHistory") :
        LET q == AfterPath(calls[i].fetches[1].url, SmsHistoryPath)
            o == calls[i].args.options
        IN  /\ QueryParams(q) = SuppliedParams(o)
            /\ SuppliedParams(o) = {} => q = <<>>

\* C7: without a sender label the body of sendSms has exactly the fields to
\* and message; with a sender label it carries the label as senderId.
C7_SenderIdOnlyWhenSupplied ==
    \A i \in CallsOf("sendSms") :
        LET body == calls[i].fetches[1].body.value
            s    == calls[i].args.senderId
        IN  IF s.defined
            THEN /\ BodyKeys(body) = {"to", "message", "senderId"}
                 /\ BodyString(body, "senderId") = {Q(s.value)}
            ELSE BodyKeys(body) = {"to", "message"}

\* C10: a failure of the network call and a body that is not JSON, whatever
\* the status, end the operation with exactly the failure the transport or the
\* parser raised: no status or code is attached and no request error replaces it.
C10_TransportAndParseFailuresUnmodified ==
    \A i \in Done :
        LET c == calls[i] IN
        /\ c.response.kind = "throw" =>
              /\ c.outcome.kind = "throw"
              /\ c.outcome.error = c.response.error
        /\ (c.response.kind = "response" /\ ~c.body.parses) =>
              /\ c.outcome.kind = "throw"
              /\ c.outcome.error = c.body.raised
              /\ DOMAIN c.outcome.error = DOMAIN c.body.raised

C10_Witness ==
    \E i \in Done :
        /\ calls[i].response.kind = "response"
        /\ calls[i].response.status = 401
        /\ ~calls[i].body.parses
        /\ calls[i].body.text = "<html>"
        /\ calls[i].outcome = Throw(calls[i].body.raised)

\* C8: nothing is retried: every invocation has issued exactly one network
\* request, during the call and after it has completed, whatever its outcome;
\* a completed invocation has an outcome, and a failed fetch is the outcome of
\* the invocation whose request it answered.
C8_ExactlyOneRequestPerInvocation ==
    \A i \in DOMAIN calls :
        /\ Len(calls[i].fetches) = 1
        /\ calls[i].pc = "done" <=> calls[i].outcome # pending
        /\ calls[i].response.kind = "throw" =>
              (calls[i].pc = "done" /\ calls[i].outcome.kind = "throw")

C8_Witness ==
    \E i, j \in Done :
        /\ calls[i].response.kind = "throw"
        /\ calls[i].outcome.kind = "throw"
        /\ calls[j].response.kind = "response"
        /\ calls[j].response.status = 401
        /\ calls[j].outcome.kind = "throw"
        /\ Len(calls[i].fetches) = 1 /\ Len(calls[j].fetches) = 1

\* C9: once the client is constructed, no step changes the credential or the
\* base endpoint (nor the record of the construction): every operation,
\* succeeding or failing, leaves them as the constructor set them.
C9_FieldsNeverChange ==
    [][ctor.state = "constructed" =>
          (apiKey' = apiKey /\ baseUrl' = baseUrl /\ ctor' = ctor)]_vars

C9_Witness ==
    /\ ctor.state = "constructed"
    /\ apiKey = ctor.apiKeyArg.value
    /\ baseUrl = <<"a", "/">>
    /\ \E i, j \in Done :
          /\ calls[i].outcome.kind = "return"
          /\ calls[j].outcome.kind = "throw"

\* C11: when the status is in the success range the operation returns the
\* parsed body of its response exactly as received, whatever JSON value it is.
C11_SuccessReturnsBodyAsReceived ==
    \A i \in Answered :
        LET c == calls[i] IN
        (c.response.status \in 200..299 /\ c.body.parses) =>
            /\ c.outcome.kind = "return"
            /\ c.outcome.value = c.body.data

C11_Witness ==
    \E i \in Answered :
        /\ calls[i].response.status = 299
        /\ calls[i].body = Parsed(JNull)
        /\ calls[i].outcome = Return(JNull)

\* The decimal digits of the page numbers and limits of the inputs.
Decimal(n) ==
    CASE n = 0 -> <<"0">>
      [] n = 1 -> <<"1">>
      [] n = 2 -> <<"2">>
      [] n = 3 -> <<"3">>
      [] n = 4 -> <<"4">>
      [] n = 20 -> <<"2", "0">>
      [] n = 50 -> <<"5", "0">>

\* C12: getTransactions() requests the query string page=1&limit=20, and
\* getTransactions(p, l) requests page=p&limit=l: both parameters, in that order.
C12_TransactionsQuery ==
    \A i \in CallsOf("getTransactions") :
        LET q == AfterPath(calls[i].fetches[1].url, WalletTransactionsPath)
            a == calls[i].args
            p == IF a.page.defined THEN a.page.value ELSE 1
            l == IF a.limit.defined THEN a.limit.value ELSE 20
        IN  /\ q = <<"?", "p", "a", "g", "e", "=">> \o Decimal(p)
                   \o <<"&", "l", "i", "m", "i", "t", "=">> \o Decimal(l)
            /\ (~a.page.defined /\ ~a.limit.defined) =>
                  q = <<"?", "p", "a", "g", "e", "=", "1",
                        "&", "l", "i", "m", "i", "t", "=", "2", "0">>

C12_Witness ==
    \E i \in CallsOf("getTransactions") :
        /\ calls[i].args = [page |-> Val(0), limit |-> Val(50)]
        /\ AfterPath(calls[i].fetches[1].url, WalletTransactionsPath)
             = <<"?", "p", "a", "g", "e", "=", "0",
                 "&", "l", "i", "m", "i", "t", "=", "5", "0">>

\* C13: sendSms with the string s and sendSms with the one-element sequence [s],
\* the message and the sender label being the same, issue requests that differ
\* only in the value of the to field: the string s in one, the array [s] in the
\* other; the single string is not wrapped and the array is not unwrapped.
C13_RecipientShapeOnlyDifference ==
    \A i, j \in CallsOf("sendSms") :
        LET a  == calls[i].args
            b  == calls[j].args
            fi == calls[i].fetches[1]
            fj == calls[j].fetches[1]
            bi == fi.body.value
            bj == fj.body.value
        IN  (/\ a.to.type = "string"
             /\ b.to.type = "array"
             /\ b.to.items = <<a.to.s>>
             /\ a.message = b.message
             /\ a.senderId = b.senderId) =>
                /\ fi.url = fj.url /\ fi.method = fj.method
                /\ fi.headers = fj.headers
                /\ Len(bj) = Len(bi) + 2
                /\ SubSeq(bi, 1, 3) = <<P("{"), Q("to"), P(":")>>
                /\ SubSeq(bj, 1, 3) = SubSeq(bi, 1, 3)
                /\ bi[4] = Q(a.to.s)
                /\ SubSeq(bj, 4, 6) = <<P("["), Q(a.to.s), P("]")>>
                /\ SubSeq(bi, 5, Len(bi)) = SubSeq(bj, 7, Len(bj))

C13_Witness ==
    \E i, j \in CallsOf("sendSms") :
        /\ calls[i].args.to = Str("254700000001")
        /\ calls[j].args.to = Arr(<<"254700000001">>)
        /\ calls[i].args.senderId = Val("MyBrand")
        /\ calls[j].args.senderId = Val("MyBrand")
        /\ "senderId" \in BodyKeys(calls[i].fetches[1].body.value)
        /\ calls[j].fetches[1].body.value[4] = P("[")

\* The outcome the response to a call's own request determines.
OwnOutcome(c) ==
    IF c.response.kind = "throw" THEN Throw(c.response.error)
    ELSE AfterBody(c.response.status, c.body)

\* In every state: a completed call's outcome is the one its own response
\* determines; a call awaiting its response or its body can receive it whatever
\* the other calls are doing; and a new call can be invoked whatever the number
\* of calls in flight (up to the number of calls the model keeps).
C14_State ==
    /\ \A i \in Done : calls[i].outcome = OwnOutcome(calls[i])
    /\ \A i \in DOMAIN calls :
          /\ calls[i].pc = "fetch" =>
                /\ \A st \in FewHttpStatuses : ENABLED FetchResolves(i, st)
                /\ \A e \in TransportErrors : ENABLED FetchRejects(i, e)
          /\ calls[i].pc = "json" =>
                \A b \in FewBodies : ENABLED JsonSettles(i, b)
    /\ (ctor.state = "constructed" /\ Len(calls) < MaxCalls) =>
          /\ ENABLED GetBalance(FALSE)
          /\ ENABLED GetTransactions(undefined, undefined, FALSE)

\* In every step: at most one call changes, and the others stay as they are.
C14_Step ==
    /\ Len(calls') >= Len(calls)
    /\ \A i, j \in DOMAIN calls :
          (i # j /\ calls'[i] # calls[i]) => calls'[j] = calls[j]

\* C14: calls on one client are independent under every interleaving: each
\* call's outcome is determined by the response to its own request alone, no
\* call waits for another, and the client caps the calls in flight nowhere.
C14_CallsIndependent == []C14_State /\ [][C14_Step]_vars

C14_Witness ==
    /\ Len(calls) = MaxCalls
    /\ calls[1].pc = "fetch"
    /\ calls[2].pc = "done"
    /\ calls[2].response.kind = "response"
    /\ calls[2].body.parses
    /\ calls[2].outcome.kind = "throw"
    /\ calls[2].outcome.error.status = Val(401)

\* In every state: a call whose request the transport has not answered is
\* still awaiting it and has no outcome; a completed call has received its
\* response or failure, and the body of its response if it got one.
C15_State ==
    \A i \in DOMAIN calls :
        /\ calls[i].response = pending =>
              (calls[i].pc = "fetch" /\ calls[i].outcome = pending)
        /\ calls[i].pc = "json" =>
              (calls[i].body = pending /\ calls[i].outcome = pending)
        /\ calls[i].pc = "done" =>
              /\ calls[i].outcome # pending
              /\ calls[i].response.kind \in {"throw", "response"}
              /\ calls[i].response.kind = "response" => calls[i].body # pending

\* C15: the client has no timeout and no cancellation: a call completes only
\* once the transport has delivered the response or the failure of its request,
\* and when the transport answers every request every call completes.
C15_CompletesWithTransportOnly ==
    /\ []C15_State
    /\ \A i \in 1..MaxCalls :
          (i \in DOMAIN calls) ~> (i \in DOMAIN calls /\ calls[i].pc = "done")

C15_Witness ==
    /\ Len(calls) = MaxCalls
    /\ calls[1].pc = "json"
    /\ calls[1].outcome = pending
    /\ calls[2].pc = "done"
    /\ calls[2].response.kind = "response"
    /\ calls[2].outcome.kind = "return"

====
